---- MODULE Spec2Model ----
(***************************************************************************)
(* Model of server/index.js: the Arivu chat relay.                         *)
(*                                                                         *)
(* JavaScript strings that the code inspects (includes, trim, truthiness)  *)
(* are sequences of one-character strings; strings the code only copies or *)
(* compares for equality (roles, model identifiers, fixed response texts,  *)
(* credentials) are TLA+ strings.  A JavaScript object is a record; a      *)
(* property that is absent is a field outside the record's DOMAIN.         *)
(*                                                                         *)
(* The handlers are async functions on a single-threaded event loop: each  *)
(* action below is the code that runs between two awaits.                  *)
(***************************************************************************)
EXTENDS Integers, Sequences, FiniteSets, TLC

VARIABLES
    env,                \* process.env: GEMINI_API_KEY, GEMINI_API_KEY_2 ("" = unset)
    apiKeys,            \* the credential pool (line 18)
    genAI,              \* the credential the active client handle was built with
    currentApiKeyIndex, \* the pool cursor
    pc,                 \* per request slot: where its handler is suspended
    route,              \* per request slot: the endpoint of the request
    body,               \* per request slot: req.body
    error,              \* per request slot: the error bound by the catch clause
    calls,              \* per request slot: the calls made to the client library
    settled,            \* per request slot: the outcomes of its awaited sends
    resps               \* per request slot: the responses written to res

vars == <<env, apiKeys, genAI, currentApiKeyIndex, pc, route, body, error,
          calls, settled, resps>>

shared == <<env, apiKeys, genAI, currentApiKeyIndex>>

----
\* Bounds of the model.

\* Number of request slots, i.e. of requests that can be in flight together.
\* A slot whose request has been answered is released and takes the next one.
NReq == 2

\* Longest history a request of the sequential specification carries.
MaxHist == 2

Reqs == 1 .. NReq

----
\* JavaScript string primitives.

WS == {" ", "\t", "\n"}

\* String.prototype.includes
Includes(s, sub) ==
    \E i \in 0 .. (Len(s) - Len(sub)) : SubSeq(s, i + 1, i + Len(sub)) = sub

SetMin(S) == CHOOSE x \in S : \A y \in S : x <= y
SetMax(S) == CHOOSE x \in S : \A y \in S : x >= y

\* String.prototype.trim
Trim(s) ==
    LET keep == {i \in 1 .. Len(s) : s[i] \notin WS}
    IN  IF keep = {} THEN <<>> ELSE SubSeq(s, SetMin(keep), SetMax(keep))

\* o.f || d for a string-valued property: undefined and '' are falsy.
OrElse(o, f, d) == IF f \in DOMAIN o /\ o[f] # <<>> THEN o[f] ELSE d

----
\* Literals of the source.

S_API_KEY == <<"A", "P", "I", "_", "K", "E", "Y">>     \* 'API_KEY', lines 107, 116
S_quota   == <<"q", "u", "o", "t", "a">>               \* 'quota',   lines 109, 116
S_429     == <<"4", "2", "9">>                         \* '429',     lines 109, 116
S_safety  == <<"s", "a", "f", "e", "t", "y">>          \* 'safety',  line 111

\* The three model identifiers in the order the handler tries them.
ModelPreference == <<"gemini-2.5-flash", "gemini-2.5-pro", "gemini-2.0-flash">>

MsgRequired      == "Message is required"
MsgNotConfigured == "API key not configured. Please set GEMINI_API_KEY in server/.env file"
MsgDefault       == "Failed to get response from AI"
MsgInvalidKey    == "Invalid or missing API key. Please check your GEMINI_API_KEY in server/.env"
MsgQuota         == "API quota exceeded. Please try again later."
MsgSafety        == "The message was blocked by safety filters. Please try rephrasing."

\* res.status(s).json(payload); res.json(payload) answers with status 200.
Json(s, payload) == [status |-> s, json |-> payload]

HealthPayload == [status |-> "OK", message |-> "Arivu AI Server is running"]

\* req.body of a slot that holds no request.
NoBody == [none |-> TRUE]

----
\* Outcomes of the calls into the client library and the backend.

Ok(t)    == [ok |-> TRUE, text |-> t]
Throw(m) == [ok |-> FALSE, message |-> m]

\* One call into the client library, as the library sees it.
Call(op, attempt, key, model, history, message, ok) ==
    [op |-> op, attempt |-> attempt, key |-> key, model |-> model,
     history |-> history, message |-> message, ok |-> ok]

\* A call with outcome out: when it threw, the record also holds the message
\* of the error thrown.
Outcome(c, out) == IF out.ok THEN c ELSE c @@ [thrown |-> out.message]

----
\* Start-up (lines 16-33).

\* [apiKey1, apiKey2].filter(Boolean)
PoolOf(e) ==
    (IF e.GEMINI_API_KEY # "" THEN <<e.GEMINI_API_KEY>> ELSE <<>>)
    \o (IF e.GEMINI_API_KEY_2 # "" THEN <<e.GEMINI_API_KEY_2>> ELSE <<>>)

\* The client built with the last credential of the pool.
InitialClient_Last(pool) == IF pool # <<>> THEN pool[Len(pool)] ELSE ""

\* new GoogleGenerativeAI(apiKeys[0] || '')
InitialClient(pool) == IF pool # <<>> THEN pool[1] ELSE ""

Init ==
    /\ env \in [GEMINI_API_KEY : {"", "k1"}, GEMINI_API_KEY_2 : {"", "k2"}]
    /\ apiKeys = PoolOf(env)
    /\ genAI = InitialClient(apiKeys)
    /\ currentApiKeyIndex = 0
    /\ pc = [r \in Reqs |-> "idle"]
    /\ route = [r \in Reqs |-> "none"]
    /\ body = [r \in Reqs |-> NoBody]
    /\ error = [r \in Reqs |-> <<>>]
    /\ calls = [r \in Reqs |-> <<>>]
    /\ settled = [r \in Reqs |-> <<>>]
    /\ resps = [r \in Reqs |-> <<>>]

----
\* switchApiKey (lines 36-42): the cursor and the client after the call.

\* The cursor left where it is.
SwitchedIndex_Stuck == currentApiKeyIndex

SwitchedIndex ==
    IF Len(apiKeys) > 1
    THEN (currentApiKeyIndex + 1) % Len(apiKeys)
    ELSE currentApiKeyIndex

\* The client not rebuilt after the cursor moved.
SwitchedClient_Stale == genAI

SwitchedClient ==
    IF Len(apiKeys) > 1 THEN apiKeys[SwitchedIndex + 1] ELSE genAI

\* The client construction switchApiKey performs, as a library call.
SwitchCalls ==
    IF Len(apiKeys) > 1
    THEN <<Call("client", 2, SwitchedClient, "", <<>>, <<>>, TRUE)>>
    ELSE <<>>

----
\* POST /api/chat: validation (lines 47-61).

\* A check for undefined alone: message === undefined.
MessageMissing_UndefinedOnly(b) == ~("message" \in DOMAIN b)

\* !message
MessageMissing(b) == ~("message" \in DOMAIN b) \/ b.message = <<>>

\* The pool check left out.
PoolEmpty_Unchecked == FALSE

\* apiKeys.length === 0
PoolEmpty == Len(apiKeys) = 0

ValidationFailure == Json(400, [error |-> MsgRequired, success |-> FALSE])

ConfigurationFailure == Json(500, [error |-> MsgNotConfigured, success |-> FALSE])

----
\* POST /api/chat: model selection (lines 65-75).  ctor[i] is the outcome of
\* getGenerativeModel for ModelPreference[i].

\* A fallback that goes from the primary straight to the third identifier's
\* position.
SelectedModel_SkipsSecond(ctor) == IF ctor[1].ok THEN 1 ELSE 3

\* The position of the identifier the handler ends on: the first that
\* constructs, or the last one when none does.
SelectedModel(ctor) ==
    IF ctor[1].ok THEN 1 ELSE IF ctor[2].ok THEN 2 ELSE 3

SelectCalls(ctor) ==
    [i \in 1 .. SelectedModel(ctor) |->
        Outcome(Call("model", 1, genAI, ModelPreference[i], <<>>, <<>>, ctor[i].ok),
                ctor[i])]

----
\* POST /api/chat: history (lines 78-90).

\* history && history.length > 0, history defaulting to []
HasHistory(b) == "history" \in DOMAIN b /\ Len(b.history) > 0

\* msg => ({role: ..., parts: [{text: msg.content || msg.text || ''}]})
FormatTurn(msg) ==
    [role  |-> IF "role" \in DOMAIN msg /\ msg.role = "user" THEN "user" ELSE "model",
     parts |-> <<[text |-> OrElse(msg, "content", OrElse(msg, "text", <<>>))]>>]

\* The filter without its trim.
KeepTurn_Untrimmed(t) == t.parts[1].text # <<>>

\* msg => msg.parts[0].text.trim() !== ''
KeepTurn(t) == Trim(t.parts[1].text) # <<>>

RECURSIVE FilterTurns(_)
FilterTurns(s) ==
    IF s = <<>> THEN <<>>
    ELSE (IF KeepTurn(Head(s)) THEN <<Head(s)>> ELSE <<>>) \o FilterTurns(Tail(s))

FormatHistory(h) == FilterTurns([i \in 1 .. Len(h) |-> FormatTurn(h[i])])

\* The history the session of the first attempt is started with.
SessionHistory(b) == IF HasHistory(b) THEN FormatHistory(b.history) ELSE <<>>

----
\* POST /api/chat: the catch clause (lines 101-140).

\* The quota test placed before the API_KEY test.
Classify_QuotaFirst(e) ==
    IF Includes(e, S_quota) \/ Includes(e, S_429) THEN MsgQuota
    ELSE IF Includes(e, S_API_KEY) THEN MsgInvalidKey
    ELSE IF Includes(e, S_safety) THEN MsgSafety
    ELSE MsgDefault

\* errorMessage (lines 106-113)
Classify(e) ==
    IF Includes(e, S_API_KEY) THEN MsgInvalidKey
    ELSE IF Includes(e, S_quota) \/ Includes(e, S_429) THEN MsgQuota
    ELSE IF Includes(e, S_safety) THEN MsgSafety
    ELSE MsgDefault

\* Line 116 without its test of the pool size.
ShouldRetry_AnyPoolSize(e) ==
    Includes(e, S_quota) \/ Includes(e, S_429) \/ Includes(e, S_API_KEY)

\* Line 116 with a test for 'safety' added.
ShouldRetry_AlsoSafety(e) ==
    /\ \/ Includes(e, S_quota) \/ Includes(e, S_429) \/ Includes(e, S_API_KEY)
       \/ Includes(e, S_safety)
    /\ Len(apiKeys) > 1

\* The condition of line 116.
ShouldRetry(e) ==
    /\ Includes(e, S_quota) \/ Includes(e, S_429) \/ Includes(e, S_API_KEY)
    /\ Len(apiKeys) > 1

\* Lines 135-139.
Failure(e) == Json(500, [error |-> Classify(e), details |-> e, success |-> FALSE])

\* Lines 97-100 and 126-129.
Success(t) == Json(200, [message |-> t, success |-> TRUE])

\* The retry repeating the model fallback: the second identifier is tried
\* when the primary does not construct.
RetryCalls_FallsBack(msg, rc) ==
    SwitchCalls
    \o <<Outcome(Call("model", 2, SwitchedClient, ModelPreference[1], <<>>, <<>>, rc.ok),
                  rc)>>
    \o (IF rc.ok
        THEN <<Call("start", 2, SwitchedClient, ModelPreference[1], <<>>, <<>>, TRUE),
               Call("send", 2, SwitchedClient, ModelPreference[1], <<>>, msg, TRUE)>>
        ELSE <<Call("model", 2, SwitchedClient, ModelPreference[2], <<>>, <<>>, TRUE),
               Call("start", 2, SwitchedClient, ModelPreference[2], <<>>, <<>>, TRUE),
               Call("send", 2, SwitchedClient, ModelPreference[2], <<>>, msg, TRUE)>>)

\* The calls of the retry (lines 118-122) when the primary model constructs
\* (rc.ok) and when it throws.
RetryCalls(msg, rc) ==
    SwitchCalls
    \o <<Outcome(Call("model", 2, SwitchedClient, ModelPreference[1], <<>>, <<>>, rc.ok),
                  rc)>>
    \o (IF rc.ok
        THEN <<Call("start", 2, SwitchedClient, ModelPreference[1], <<>>, <<>>, TRUE),
               Call("send", 2, SwitchedClient, ModelPreference[1], <<>>, msg, TRUE)>>
        ELSE <<>>)

\* The catch clause run for request r with error message e: log is the
\* request's calls so far, st its settled sends, rc the outcome of the retry's
\* getGenerativeModel.
Catch(r, e, msg, rc, log, st) ==
    /\ error' = [error EXCEPT ![r] = e]
    /\ settled' = [settled EXCEPT ![r] = st]
    /\ IF ShouldRetry(e)
       THEN /\ currentApiKeyIndex' = SwitchedIndex
            /\ genAI' = SwitchedClient
            /\ calls' = [calls EXCEPT ![r] = log \o RetryCalls(msg, rc)]
            /\ IF rc.ok
               THEN /\ pc' = [pc EXCEPT ![r] = "await2"]
                    /\ resps' = [resps EXCEPT ![r] = <<>>]
               ELSE /\ pc' = [pc EXCEPT ![r] = "done"]
                    /\ resps' = [resps EXCEPT ![r] = <<Failure(e)>>]
       ELSE /\ UNCHANGED <<currentApiKeyIndex, genAI>>
            /\ calls' = [calls EXCEPT ![r] = log]
            /\ pc' = [pc EXCEPT ![r] = "done"]
            /\ resps' = [resps EXCEPT ![r] = <<Failure(e)>>]

----
\* POST /api/chat, from the arrival of the request to its first await or its
\* response (lines 45-93, and 101-139 when a call throws synchronously).
\* b is req.body; o.ctor, o.start and o.retry are the outcomes of the
\* getGenerativeModel calls, of startChat and of the retry's
\* getGenerativeModel.

FirstCalls(b, o) ==
    LET n == SelectedModel(o.ctor)
        h == SessionHistory(b)
    IN  SelectCalls(o.ctor)
        \o (IF o.ctor[n].ok
            THEN <<Outcome(Call("start", 1, genAI, ModelPreference[n], h, <<>>, o.start.ok),
                           o.start)>>
                 \o (IF o.start.ok
                     THEN <<Call("send", 1, genAI, ModelPreference[n], h, b.message, TRUE)>>
                     ELSE <<>>)
            ELSE <<>>)

ChatStart(r, b, o) ==
    /\ pc[r] = "idle"
    /\ route' = [route EXCEPT ![r] = "chat"]
    /\ body' = [body EXCEPT ![r] = b]
    /\ UNCHANGED <<env, apiKeys>>
    /\ IF MessageMissing(b)
       THEN /\ pc' = [pc EXCEPT ![r] = "done"]
            /\ resps' = [resps EXCEPT ![r] = <<ValidationFailure>>]
            /\ calls' = [calls EXCEPT ![r] = <<>>]
            /\ error' = [error EXCEPT ![r] = <<>>]
            /\ settled' = [settled EXCEPT ![r] = <<>>]
            /\ UNCHANGED <<currentApiKeyIndex, genAI>>
       ELSE IF PoolEmpty
       THEN /\ pc' = [pc EXCEPT ![r] = "done"]
            /\ resps' = [resps EXCEPT ![r] = <<ConfigurationFailure>>]
            /\ calls' = [calls EXCEPT ![r] = <<>>]
            /\ error' = [error EXCEPT ![r] = <<>>]
            /\ settled' = [settled EXCEPT ![r] = <<>>]
            /\ UNCHANGED <<currentApiKeyIndex, genAI>>
       ELSE IF ~o.ctor[SelectedModel(o.ctor)].ok
       THEN Catch(r, o.ctor[3].message, b.message, o.retry, FirstCalls(b, o), <<>>)
       ELSE IF ~o.start.ok
       THEN Catch(r, o.start.message, b.message, o.retry, FirstCalls(b, o), <<>>)
       ELSE /\ pc' = [pc EXCEPT ![r] = "await1"]
            /\ resps' = [resps EXCEPT ![r] = <<>>]
            /\ calls' = [calls EXCEPT ![r] = FirstCalls(b, o)]
            /\ error' = [error EXCEPT ![r] = <<>>]
            /\ settled' = [settled EXCEPT ![r] = <<>>]
            /\ UNCHANGED <<currentApiKeyIndex, genAI>>

\* The first attempt's send settles (lines 93-100, and 101-139 when it
\* rejects or response.text() throws).
FirstSettle(r, out, rc) ==
    /\ pc[r] = "await1"
    /\ UNCHANGED <<env, apiKeys, route, body>>
    /\ IF out.ok
       THEN /\ pc' = [pc EXCEPT ![r] = "done"]
            /\ resps' = [resps EXCEPT ![r] = Append(@, Success(out.text))]
            /\ settled' = [settled EXCEPT ![r] = Append(@, out)]
            /\ UNCHANGED <<currentApiKeyIndex, genAI, calls, error>>
       ELSE Catch(r, out.message, body[r].message, rc, calls[r],
                  Append(settled[r], out))

\* The retry's success falling through to the failure response of line 135.
RetrySettle_FallsThrough(r, out) ==
    /\ pc[r] = "await2"
    /\ pc' = [pc EXCEPT ![r] = "done"]
    /\ settled' = [settled EXCEPT ![r] = Append(@, out)]
    /\ resps' = [resps EXCEPT ![r] = Append(@, Failure(error[r]))]
    /\ UNCHANGED <<shared, route, body, error, calls>>

\* The retry's catch returning without a response.
RetrySettle_Silent(r, out) ==
    /\ pc[r] = "await2"
    /\ pc' = [pc EXCEPT ![r] = "done"]
    /\ settled' = [settled EXCEPT ![r] = Append(@, out)]
    /\ resps' = [resps EXCEPT ![r] = IF out.ok THEN Append(@, Success(out.text)) ELSE @]
    /\ UNCHANGED <<shared, route, body, error, calls>>

\* The failure response built from retryError instead of error.
RetrySettle_ReportsRetryError(r, out) ==
    /\ pc[r] = "await2"
    /\ pc' = [pc EXCEPT ![r] = "done"]
    /\ settled' = [settled EXCEPT ![r] = Append(@, out)]
    /\ resps' = [resps EXCEPT ![r] =
            Append(@, IF out.ok THEN Success(out.text) ELSE Failure(out.message))]
    /\ UNCHANGED <<shared, route, body, error, calls>>

\* The retry's send settles (lines 122-139).
RetrySettle(r, out) ==
    /\ pc[r] = "await2"
    /\ pc' = [pc EXCEPT ![r] = "done"]
    /\ settled' = [settled EXCEPT ![r] = Append(@, out)]
    /\ resps' = [resps EXCEPT ![r] =
            Append(@, IF out.ok THEN Success(out.text) ELSE Failure(error[r]))]
    /\ UNCHANGED <<shared, route, body, error, calls>>

----
\* GET /api/models (lines 144-168) and GET /api/health (lines 171-173).

ModelsStart(r) ==
    /\ pc[r] = "idle"
    /\ route' = [route EXCEPT ![r] = "models"]
    /\ body' = [body EXCEPT ![r] = NoBody]
    /\ error' = [error EXCEPT ![r] = <<>>]
    /\ settled' = [settled EXCEPT ![r] = <<>>]
    /\ IF env.GEMINI_API_KEY = ""
       THEN /\ pc' = [pc EXCEPT ![r] = "done"]
            /\ calls' = [calls EXCEPT ![r] = <<>>]
            /\ resps' = [resps EXCEPT ![r] =
                    <<Json(500, [error |-> "API key not configured", success |-> FALSE])>>]
       ELSE /\ pc' = [pc EXCEPT ![r] = "fetch"]
            /\ calls' = [calls EXCEPT ![r] =
                    <<Call("fetch", 1, env.GEMINI_API_KEY, "", <<>>, <<>>, TRUE)>>]
            /\ resps' = [resps EXCEPT ![r] = <<>>]
    /\ UNCHANGED shared

\* out.ok: the fetch and response.json() resolved with data; out.models is
\* data.models || [].
ModelsSettle(r, out) ==
    /\ pc[r] = "fetch"
    /\ pc' = [pc EXCEPT ![r] = "done"]
    /\ resps' = [resps EXCEPT ![r] = Append(@,
            IF out.ok
            THEN Json(200, [models |-> out.models, success |-> TRUE])
            ELSE Json(500, [error |-> "Failed to fetch models",
                            details |-> out.message, success |-> FALSE]))]
    /\ UNCHANGED <<shared, route, body, error, calls, settled>>

\* A health check that reports whether a credential is configured.
Health_ChecksPool(r) ==
    /\ pc[r] = "idle"
    /\ route' = [route EXCEPT ![r] = "health"]
    /\ body' = [body EXCEPT ![r] = NoBody]
    /\ error' = [error EXCEPT ![r] = <<>>]
    /\ settled' = [settled EXCEPT ![r] = <<>>]
    /\ calls' = [calls EXCEPT ![r] = <<>>]
    /\ pc' = [pc EXCEPT ![r] = "done"]
    /\ resps' = [resps EXCEPT ![r] =
            <<IF Len(apiKeys) = 0
              THEN Json(500, [status |-> "ERROR", message |-> "Arivu AI Server is running"])
              ELSE Json(200, HealthPayload)>>]
    /\ UNCHANGED shared

Health(r) ==
    /\ pc[r] = "idle"
    /\ route' = [route EXCEPT ![r] = "health"]
    /\ body' = [body EXCEPT ![r] = NoBody]
    /\ error' = [error EXCEPT ![r] = <<>>]
    /\ settled' = [settled EXCEPT ![r] = <<>>]
    /\ calls' = [calls EXCEPT ![r] = <<>>]
    /\ pc' = [pc EXCEPT ![r] = "done"]
    /\ resps' = [resps EXCEPT ![r] = <<Json(200, HealthPayload)>>]
    /\ UNCHANGED shared

\* The request has been answered: the runtime drops req and res, and the slot
\* is free for the next request.  Nothing of a request outlives its response
\* but the cursor and the client handle.
Close(r) ==
    /\ pc[r] = "done"
    /\ pc' = [pc EXCEPT ![r] = "idle"]
    /\ route' = [route EXCEPT ![r] = "none"]
    /\ body' = [body EXCEPT ![r] = NoBody]
    /\ error' = [error EXCEPT ![r] = <<>>]
    /\ calls' = [calls EXCEPT ![r] = <<>>]
    /\ settled' = [settled EXCEPT ![r] = <<>>]
    /\ resps' = [resps EXCEPT ![r] = <<>>]
    /\ UNCHANGED shared

----
\* The environment: request bodies, and outcomes of library and backend calls.

S_hi == <<"h", "i">>
S_yo == <<"y", "o">>
S_sp == <<" ">>

\* Raw error messages.
E_quota       == S_quota                                   \* quota
E_429         == <<"4", "2", "9", " ">> \o S_quota         \* 429 quota
E_key         == <<"n", "o", " ">> \o S_API_KEY            \* no API_KEY
E_keyQuota    == S_quota \o S_sp \o S_API_KEY              \* quota API_KEY
E_quotaSafety == S_safety \o S_sp \o S_quota               \* safety quota
E_safety      == S_safety                                  \* safety
E_SAFETY      == <<"S", "A", "F", "E", "T", "Y">>          \* SAFETY
E_Quota       == <<"Q", "u", "o", "t", "a">>               \* Quota
E_42_9        == <<"4", "2", " ", "9">>                    \* 42 9
E_boom        == <<"b", "o", "o", "m">>                    \* boom

Errors == {E_quota, E_429, E_key, E_keyQuota, E_quotaSafety, E_safety,
           E_SAFETY, E_Quota, E_42_9, E_boom}

Texts == {"reply-a", "reply-b"}

Built == [ok |-> TRUE]

\* Outcomes of the three getGenerativeModel calls of the first attempt; the
\* handler does not reach a call that follows a successful one.
CtorOutcomes(errs) ==
    {<<Built, Built, Built>>,
     <<Throw(E_boom), Built, Built>>,
     <<Throw(E_boom), Throw(E_boom), Built>>}
    \cup {<<Throw(E_boom), Throw(E_boom), Throw(e)>> : e \in errs}

SyncOutcomes(errs) ==
    [ctor : CtorOutcomes(errs),
     start : {Built} \cup {Throw(e) : e \in errs},
     retry : {Built, Throw(E_boom)}]

SendOutcomes(texts, errs) == {Ok(t) : t \in texts} \cup {Throw(e) : e \in errs}

\* Conversation turns a caller may supply: {role, content | text}.
Turns ==
    {[role |-> "user", content |-> S_hi],
     [role |-> "user", content |-> <<>>],
     [role |-> "bot", content |-> S_hi],
     [role |-> "assistant", text |-> S_yo],
     [role |-> "user", content |-> <<>>, text |-> S_yo],
     [role |-> "model", content |-> S_sp, text |-> S_yo],
     [role |-> "User", content |-> S_hi \o S_sp],
     [content |-> S_sp \o S_hi, text |-> S_yo],
     [role |-> "user"]}

RECURSIVE SeqsUpTo(_, _)
SeqsUpTo(S, n) ==
    IF n = 0 THEN {<<>>}
    ELSE LET shorter == SeqsUpTo(S, n - 1)
         IN  shorter \cup {Append(h, t) : h \in shorter, t \in S}

Histories == SeqsUpTo(Turns, MaxHist)

\* Bodies of the sequential specification: every kind of message, and every
\* history under a message that passes validation.
SeqBodies ==
    {[history |-> <<>>], [message |-> <<>>],
     [message |-> <<>>, history |-> <<[role |-> "user", content |-> S_hi]>>],
     [message |-> S_sp], [message |-> S_hi],
     [message |-> S_hi, history |-> <<[role |-> "bot", content |-> S_hi]>>]}

HistBodies == {[message |-> S_hi, history |-> h] : h \in Histories}

AllBuilt == [ctor |-> <<Built, Built, Built>>, start |-> Built, retry |-> Built]

SeqInputs ==
    (SeqBodies \X SyncOutcomes({E_quota, E_boom}))
    \cup (HistBodies \X {AllBuilt, [AllBuilt EXCEPT !.start = Throw(E_boom)]})

\* Bodies of the concurrent specification.
ConcBodies == {[history |-> <<>>], [message |-> S_hi]}

ConcErrors == {E_quota, E_boom}

\* In the concurrent specification the library constructs every model and
\* session of a first attempt; what varies is how the sends settle.
ConcInputs == ConcBodies \X {AllBuilt}

ModelsOutcomes ==
    {[ok |-> TRUE, models |-> <<"gemini-2.5-flash">>], [ok |-> TRUE, models |-> <<>>],
     Throw(E_boom)}

----
\* Concurrent specification: NReq requests in flight, few inputs.

Next ==
    \E r \in Reqs :
        \/ \E in \in ConcInputs : ChatStart(r, in[1], in[2])
        \/ \E out \in SendOutcomes({"reply-a"}, ConcErrors), rc \in {Built, Throw(E_boom)} :
                FirstSettle(r, out, rc)
        \/ \E out \in SendOutcomes({"reply-a"}, ConcErrors) : RetrySettle(r, out)
        \/ ModelsStart(r)
        \/ \E out \in ModelsOutcomes : ModelsSettle(r, out)
        \/ Health(r)
        \/ Close(r)

Spec == Init /\ [][Next]_vars

----
\* Sequential specification: one request at a time, in slot 1, many inputs.

SeqNext ==
    \/ \E in \in SeqInputs : ChatStart(1, in[1], in[2])
    \/ \E out \in SendOutcomes(Texts, Errors), rc \in {Built, Throw(E_boom)} :
            FirstSettle(1, out, rc)
    \/ \E out \in SendOutcomes(Texts, Errors) : RetrySettle(1, out)
    \/ ModelsStart(1)
    \/ \E out \in ModelsOutcomes : ModelsSettle(1, out)
    \/ Health(1)
    \/ Close(1)

SeqSpec == Init /\ [][SeqNext]_vars

\* Every awaited backend call eventually settles.
SeqFairness ==
    /\ WF_vars(\E out \in SendOutcomes(Texts, Errors), rc \in {Built, Throw(E_boom)} :
                    FirstSettle(1, out, rc))
    /\ WF_vars(\E out \in SendOutcomes(Texts, Errors) : RetrySettle(1, out))
    /\ WF_vars(\E out \in ModelsOutcomes : ModelsSettle(1, out))

SeqFairSpec == SeqSpec /\ SeqFairness

----
\* Vocabulary of the properties.

IsChat(r) == route[r] = "chat"

\* The request has a message that is neither missing nor the empty string.
HasMessage(r) == "message" \in DOMAIN body[r] /\ body[r].message # <<>>

\* The calls of request r with the given operation and attempt.
CallsOf(r, op, attempt) ==
    {i \in 1 .. Len(calls[r]) : calls[r][i].op = op /\ calls[r][i].attempt = attempt}

\* Request r has entered its retry: a client, model, session or send call of
\* the second attempt was made.
Retried(r) == \E i \in 1 .. Len(calls[r]) : calls[r][i].attempt = 2

\* The calls request r made in its first attempt.
FirstAttempt(r) == SelectSeq(calls[r], LAMBDA c : c.attempt = 1)

\* The first attempt of request r is over and failed: its last library call
\* threw, or its send settled with an error.
FirstFailed(r) ==
    LET f == FirstAttempt(r)
    IN  /\ f # <<>>
        /\ \/ ~f[Len(f)].ok
           \/ f[Len(f)].op = "send" /\ settled[r] # <<>> /\ ~settled[r][1].ok

\* The classifications of the error taxonomy, by their response text.
InvalidCredentialError == MsgInvalidKey
QuotaExceededError     == MsgQuota
ContentBlockedError    == MsgSafety
UnknownBackendError    == MsgDefault

----
\* C1: a chat request whose message is missing or the empty string is answered
\* with the validation failure (status 400, success false), makes no call to
\* the client library or the backend, and leaves the credential cursor where it
\* was, whatever its history, the pool and the cursor are.
C1_ValidationFailure ==
    /\ [](\A r \in Reqs :
            IsChat(r) /\ ~HasMessage(r)
            => /\ pc[r] = "done"
               /\ calls[r] = <<>>
               /\ Len(resps[r]) = 1
               /\ resps[r][1].status = 400
               /\ resps[r][1].json.success = FALSE
               /\ resps[r][1].json.error = MsgRequired)
    /\ [][\A r \in Reqs :
            ~IsChat(r) /\ IsChat(r)' /\ ~HasMessage(r)'
            => /\ currentApiKeyIndex' = currentApiKeyIndex
               /\ genAI' = genAI]_vars

\* An empty message with a non-empty history, two credentials and the cursor
\* on the second one, answered with 400.
C1_Witness ==
    /\ IsChat(1) /\ pc[1] = "done"
    /\ "message" \in DOMAIN body[1] /\ body[1].message = <<>>
    /\ "history" \in DOMAIN body[1] /\ body[1].history # <<>>
    /\ Len(apiKeys) = 2 /\ currentApiKeyIndex = 1
    /\ resps[1][1].status = 400

----
\* C2 as stated: with an empty credential pool every chat request, whatever
\* its body, is answered with the configuration failure (status 500, success
\* false) and makes no backend call.
C2_AsStated ==
    \A r \in Reqs :
        IsChat(r) /\ Len(apiKeys) = 0
        => /\ pc[r] = "done"
           /\ calls[r] = <<>>
           /\ resps[r] = <<Json(500, [error |-> MsgNotConfigured, success |-> FALSE])>>

\* C2 as amended: with an empty credential pool no chat request makes a
\* backend call; a request whose message is present and non-empty is answered
\* with the configuration failure (status 500, success false), and a request
\* whose message is missing or empty with the validation failure (status 400).
C2_ConfigurationFailure ==
    \A r \in Reqs :
        IsChat(r) /\ Len(apiKeys) = 0
        => /\ pc[r] = "done"
           /\ calls[r] = <<>>
           /\ Len(resps[r]) = 1
           /\ resps[r][1].json.success = FALSE
           /\ HasMessage(r)
              => resps[r][1] = Json(500, [error |-> MsgNotConfigured, success |-> FALSE])
           /\ ~HasMessage(r) => resps[r][1].status = 400

\* A request with a message and a history, answered 500 under an empty pool.
C2_Witness ==
    /\ IsChat(1) /\ pc[1] = "done" /\ Len(apiKeys) = 0
    /\ HasMessage(1) /\ "history" \in DOMAIN body[1]
    /\ resps[1][1].status = 500

----
\* C3: a chat request enters its retry (the cursor advances by one and the
\* calls of the second attempt follow) if and only if its first attempt failed
\* with an error classified InvalidCredentialError or QuotaExceededError and
\* the pool holds more than one credential.  With one credential such an error
\* is answered as a failure with no second attempt and no cursor change;
\* ContentBlockedError and UnknownBackendError never lead to a retry.
C3_RetryPolicy ==
    /\ [](\A r \in Reqs :
            IsChat(r) /\ pc[r] \in {"await2", "done"}
            => /\ Retried(r)
                  <=> /\ FirstFailed(r)
                      /\ Classify(error[r]) \in {InvalidCredentialError, QuotaExceededError}
                      /\ Len(apiKeys) > 1
               /\ Retried(r)
                  => /\ CallsOf(r, "client", 2) # {}
                     /\ CallsOf(r, "model", 2) # {}
                     /\ (\A i \in CallsOf(r, "model", 2) : calls[r][i].ok)
                        => CallsOf(r, "send", 2) # {}
               /\ FirstFailed(r) /\ ~Retried(r)
                  => /\ pc[r] = "done"
                     /\ resps[r] = <<Json(500, [error |-> Classify(error[r]),
                                                details |-> error[r],
                                                success |-> FALSE])>>
               /\ Classify(error[r]) \in {ContentBlockedError, UnknownBackendError}
                  => ~Retried(r))
    /\ [][\A r \in Reqs :
            /\ ~Retried(r) /\ Retried(r)'
               => currentApiKeyIndex' = (currentApiKeyIndex + 1) % Len(apiKeys)
            /\ (IsChat(r)' /\ pc'[r] # pc[r] /\ ~(~Retried(r) /\ Retried(r)'))
               => currentApiKeyIndex' = currentApiKeyIndex]_vars

\* One credential, a first send that failed with a quota error: answered as a
\* failure, the retry not entered.
C3_Witness ==
    /\ IsChat(1) /\ pc[1] = "done" /\ Len(apiKeys) = 1
    /\ Len(settled[1]) = 1 /\ ~settled[1][1].ok
    /\ Classify(error[1]) = QuotaExceededError
    /\ ~Retried(1)
    /\ resps[1][1].status = 500

----
\* C4 as stated: with two credentials, whenever a chat request sends its
\* retry, the credential of the retry's calls differs from the credential of
\* the calls of the same request's first attempt, in every interleaving of
\* concurrent requests.
C4_RetryUsesAlternate ==
    \A r \in Reqs :
        IsChat(r) /\ Len(apiKeys) = 2
        => \A i, j \in 1 .. Len(calls[r]) :
                /\ calls[r][i].attempt = 1
                /\ calls[r][j].attempt = 2
                /\ calls[r][j].op = "send"
                => calls[r][j].key # calls[r][i].key

----
\* C5: with two credentials and the cursor on the first, when the first send
\* fails with a quota error and the resend under the second credential
\* succeeds, the response is 200, success true, with the text of the second
\* call; the cursor then rests on the second credential, is not moved when the
\* request is released, and the first attempt of every request uses the
\* credential under the cursor.
C5_RetrySuccess ==
    /\ [](\A r \in Reqs :
            /\ IsChat(r) /\ pc[r] = "done" /\ Len(apiKeys) = 2
            /\ CallsOf(r, "send", 1) # {}
            /\ \A i \in CallsOf(r, "send", 1) : calls[r][i].key = apiKeys[1]
            /\ Len(settled[r]) = 2
            /\ ~settled[r][1].ok
            /\ Classify(settled[r][1].message) = QuotaExceededError
            /\ settled[r][2].ok
            => /\ \A j \in CallsOf(r, "send", 2) : calls[r][j].key = apiKeys[2]
               /\ resps[r] = <<Json(200, [message |-> settled[r][2].text,
                                          success |-> TRUE])>>
               /\ currentApiKeyIndex = 1
               /\ genAI = apiKeys[2])
    /\ [][\A r \in Reqs :
            /\ pc[r] = "done" /\ pc'[r] = "idle"
               => currentApiKeyIndex' = currentApiKeyIndex /\ genAI' = genAI
            /\ pc[r] = "idle" /\ IsChat(r)'
               => \A i \in 1 .. Len(calls'[r]) :
                    calls'[r][i].attempt = 1
                    => calls'[r][i].key = apiKeys[currentApiKeyIndex + 1]]_vars

\* The first send under credential 1 failed with a quota error, the resend
\* under credential 2 succeeded and was answered.
C5_Witness ==
    /\ IsChat(1) /\ pc[1] = "done" /\ Len(apiKeys) = 2
    /\ Len(settled[1]) = 2
    /\ settled[1][1] = Throw(E_429)
    /\ settled[1][2] = Ok("reply-b")
    /\ \E i \in CallsOf(1, "send", 1) : calls[1][i].key = "k1"
    /\ \E j \in CallsOf(1, "send", 2) : calls[1][j].key = "k2"
    /\ resps[1][1].json.success

----
\* C6: when the retry throws (its send fails, or its model cannot be
\* constructed), the response is 500, success false, with the classification
\* of the first attempt's error and that error's raw message as details; the
\* retry's error does not appear in it.
C6_RetryFailure ==
    \A r \in Reqs :
        /\ IsChat(r) /\ pc[r] = "done" /\ Retried(r)
        /\ \/ settled[r] # <<>> /\ ~settled[r][Len(settled[r])].ok
           \/ \E i \in CallsOf(r, "model", 2) : ~calls[r][i].ok
        => /\ Len(resps[r]) = 1
           /\ resps[r][1].status = 500
           /\ resps[r][1].json.success = FALSE
           /\ resps[r][1].json.details = error[r]
           /\ resps[r][1].json.error = Classify(error[r])
           /\ Len(settled[r]) = 2 => error[r] = settled[r][1].message

\* A first send failed with a quota error and the retry's send with an error
\* of another class.
C6_Witness ==
    /\ IsChat(1) /\ pc[1] = "done"
    /\ settled[1] = <<Throw(E_quota), Throw(E_safety)>>
    /\ resps[1][1].json.error = QuotaExceededError
    /\ resps[1][1].json.details = E_quota

----
\* C7: a chat request makes at most two sends and enters at most one retry,
\* which advances the cursor by exactly one position modulo the pool size;
\* when the retry's send settles, with a result or an error, the request is
\* answered and the cursor stays where the retry put it.
C7_AtMostOneRetry ==
    /\ [](\A r \in Reqs :
            /\ Cardinality(CallsOf(r, "send", 1)) <= 1
            /\ Cardinality(CallsOf(r, "send", 2)) <= 1
            /\ Cardinality(CallsOf(r, "client", 2)) <= 1
            /\ Cardinality(CallsOf(r, "model", 2)) <= 1
            /\ Len(settled[r]) <= 2)
    /\ [][\A r \in Reqs :
            /\ ~Retried(r) /\ Retried(r)'
               => /\ currentApiKeyIndex' = (currentApiKeyIndex + 1) % Len(apiKeys)
                  /\ currentApiKeyIndex' # currentApiKeyIndex
                  /\ genAI' = apiKeys[currentApiKeyIndex' + 1]
            /\ Retried(r) /\ pc'[r] # pc[r]
               => /\ pc[r] \in {"await2", "done"}
                  /\ pc[r] = "await2" => pc'[r] = "done" /\ Len(resps'[r]) = 1
                  /\ currentApiKeyIndex' = currentApiKeyIndex
                  /\ genAI' = genAI]_vars

\* A retry that failed: answered, with the cursor on the retry's credential.
C7_Witness ==
    /\ IsChat(1) /\ pc[1] = "done" /\ Retried(1)
    /\ Len(settled[1]) = 2 /\ ~settled[1][2].ok
    /\ calls[1][Len(calls[1])].key = genAI
    /\ currentApiKeyIndex = 1

----
\* C8: every chat request is answered exactly once, whatever its backend
\* calls do: no response is written while a send is awaited, an answered
\* request has one response, a JSON object with a boolean success field, and
\* (every awaited call settling) a request that awaits is eventually answered.
C8_ExactlyOneResponse ==
    /\ [](\A r \in Reqs :
            /\ Len(resps[r]) <= 1
            /\ IsChat(r) /\ pc[r] \in {"await1", "await2"} => resps[r] = <<>>
            /\ IsChat(r) => pc[r] \in {"await1", "await2", "done"}
            /\ IsChat(r) /\ pc[r] = "done"
               => /\ Len(resps[r]) = 1
                  /\ "success" \in DOMAIN resps[r][1].json
                  /\ resps[r][1].json.success \in BOOLEAN
                  /\ resps[r][1].status \in {200, 400, 500}
                  /\ resps[r][1].json.success <=> resps[r][1].status = 200)
    /\ \A r \in Reqs :
            (IsChat(r) /\ pc[r] \in {"await1", "await2"})
            ~> (IsChat(r) /\ pc[r] = "done" /\ Len(resps[r]) = 1)

\* A request answered after both its first send and its retry failed.
C8_Witness ==
    /\ IsChat(1) /\ pc[1] = "done"
    /\ Len(settled[1]) = 2 /\ ~settled[1][1].ok /\ ~settled[1][2].ok
    /\ Len(resps[1]) = 1 /\ resps[1][1].json.success = FALSE

----
\* C9: the error text of a failure response is decided by case-sensitive
\* substring tests on the raw error message, the first match winning: API_KEY,
\* then quota or 429, then safety, then the default; details is the raw
\* message.
C9_Classification ==
    \A r \in Reqs :
        /\ IsChat(r) /\ pc[r] = "done"
        /\ resps[r] # <<>> /\ "details" \in DOMAIN resps[r][1].json
        => LET e == resps[r][1].json.details
               class == resps[r][1].json.error
           IN  /\ e = error[r]
               /\ (~Retried(r) /\ settled[r] # <<>>) => e = settled[r][1].message
               /\ class =
                    IF Includes(e, S_API_KEY) THEN InvalidCredentialError
                    ELSE IF Includes(e, S_quota) \/ Includes(e, S_429)
                         THEN QuotaExceededError
                    ELSE IF Includes(e, S_safety) THEN ContentBlockedError
                    ELSE UnknownBackendError
               /\ e = E_keyQuota => class = InvalidCredentialError
               /\ e = E_quotaSafety => class = QuotaExceededError
               /\ e = E_429 => class = QuotaExceededError
               /\ e = E_safety => class = ContentBlockedError
               /\ e \in {E_SAFETY, E_Quota, E_42_9, E_boom} => class = UnknownBackendError

\* A failure whose raw message holds both quota and API_KEY.
C9_Witness ==
    /\ IsChat(1) /\ pc[1] = "done" /\ resps[1] # <<>>
    /\ "details" \in DOMAIN resps[1][1].json
    /\ resps[1][1].json.details = E_keyQuota
    /\ resps[1][1].json.error = InvalidCredentialError

----
\* The history a request's first session is started with, and what the claim
\* expects of it.

StartedWith(r) == calls[r][CHOOSE i \in CallsOf(r, "start", 1) : TRUE].history

SuppliedHistory(r) == IF "history" \in DOMAIN body[r] THEN body[r].history ELSE <<>>

Blank(text) == \A i \in 1 .. Len(text) : text[i] \in WS

\* The turns of h whose text is not blank, in their order, with their roles
\* normalised; text[i] is the text of turn h[i].
Sanitised(h, text) ==
    LET kept == {i \in 1 .. Len(h) : ~Blank(text[i])}
        nth(j) == CHOOSE i \in kept : Cardinality({k \in kept : k <= i}) = j
    IN  [j \in 1 .. Cardinality(kept) |->
            [role  |-> IF "role" \in DOMAIN h[nth(j)] /\ h[nth(j)].role = "user"
                       THEN "user" ELSE "model",
             parts |-> <<[text |-> text[nth(j)]]>>]]

\* content, or text when content is absent.
TextIfAbsent(t) ==
    IF "content" \in DOMAIN t THEN t.content
    ELSE IF "text" \in DOMAIN t THEN t.text ELSE <<>>

\* content, or text when content is absent or the empty string.
TextIfAbsentOrEmpty(t) ==
    IF "content" \in DOMAIN t /\ t.content # <<>> THEN t.content
    ELSE IF "text" \in DOMAIN t THEN t.text ELSE <<>>

\* C10 as stated: the history handed to the backend on the first attempt is
\* the supplied turns in their order, each with role user if its role is user
\* and model otherwise and with its text taken from content, or from text when
\* content is absent, less the turns whose text is blank.
C10_AsStated ==
    \A r \in Reqs :
        IsChat(r) /\ CallsOf(r, "start", 1) # {}
        => StartedWith(r) = Sanitised(SuppliedHistory(r),
                [i \in 1 .. Len(SuppliedHistory(r)) |-> TextIfAbsent(SuppliedHistory(r)[i])])

\* C10 as amended: the same, with the text taken from content, or from text
\* when content is absent or the empty string.
C10_HistorySanitised ==
    \A r \in Reqs :
        IsChat(r) /\ CallsOf(r, "start", 1) # {}
        => /\ StartedWith(r) = Sanitised(SuppliedHistory(r),
                [i \in 1 .. Len(SuppliedHistory(r)) |->
                    TextIfAbsentOrEmpty(SuppliedHistory(r)[i])])
           /\ SuppliedHistory(r) = <<>> => StartedWith(r) = <<>>

\* The history of the specification's example, a blank turn and a turn of an
\* unknown role, started as the one model turn.
C10_Witness ==
    /\ IsChat(1) /\ CallsOf(1, "start", 1) # {}
    /\ SuppliedHistory(1) = <<[role |-> "user", content |-> <<>>],
                              [role |-> "bot", content |-> S_hi]>>
    /\ StartedWith(1) = <<[role |-> "model", parts |-> <<[text |-> S_hi]>>]>>

----
\* C11 as stated, for a server with a credential: a chat request whose
\* message holds white space only is answered with the validation failure
\* (status 400) and makes no call to the client library or the backend.
C11_BlankMessageRejected ==
    \A r \in Reqs :
        /\ IsChat(r)
        /\ Len(apiKeys) > 0
        /\ "message" \in DOMAIN body[r]
        /\ Blank(body[r].message)
        => /\ pc[r] = "done"
           /\ calls[r] = <<>>
           /\ Len(resps[r]) = 1
           /\ resps[r][1].status = 400
           /\ resps[r][1].json.success = FALSE

----
\* C12: GET /api/health is answered at once with status 200 and the payload
\* {status: 'OK', message: 'Arivu AI Server is running'} in every state, makes
\* no call, and changes neither the pool, the cursor, the client nor any other
\* request.
C12_HealthFixed ==
    /\ [](\A r \in Reqs :
            route[r] = "health"
            => /\ pc[r] = "done"
               /\ calls[r] = <<>>
               /\ resps[r] = <<[status |-> 200,
                                json |-> [status |-> "OK",
                                          message |-> "Arivu AI Server is running"]]>>)
    /\ [][\A r \in Reqs :
            route[r] # "health" /\ route'[r] = "health"
            => /\ UNCHANGED shared
               /\ \A q \in Reqs \ {r} :
                    /\ pc'[q] = pc[q] /\ route'[q] = route[q] /\ body'[q] = body[q]
                    /\ error'[q] = error[q] /\ calls'[q] = calls[q]
                    /\ settled'[q] = settled[q] /\ resps'[q] = resps[q]]_vars

\* A health check answered while a chat request awaits its retry, the cursor
\* on the second credential.
C12_Witness ==
    /\ route[1] = "health" /\ pc[1] = "done"
    /\ IsChat(2) /\ pc[2] = "await2"
    /\ currentApiKeyIndex = 1
    /\ resps[1][1].json.status = "OK"

----
\* C13: the cursor and the client are shared by all requests and nothing
\* guards them.  A request that enters its retry takes the credential after
\* the cursor's position at that moment, wherever other requests have moved it
\* since its own first attempt, and moves the cursor and the client for every
\* request in flight, whose own state it leaves alone.  So with two
\* credentials and two concurrent requests, the switch of one changes the
\* credential the other uses (the witness).
C13_SharedCursor ==
    [][\A r \in Reqs :
        ~Retried(r) /\ Retried(r)'
        => LET next == (currentApiKeyIndex + 1) % Len(apiKeys)
           IN  /\ currentApiKeyIndex' = next
               /\ genAI' = apiKeys[next + 1]
               /\ genAI' # genAI
               /\ \A i \in 1 .. Len(calls'[r]) :
                    calls'[r][i].attempt = 2 => calls'[r][i].key = apiKeys[next + 1]
               /\ \A q \in Reqs \ {r} :
                    /\ pc'[q] = pc[q] /\ calls'[q] = calls[q]
                    /\ error'[q] = error[q] /\ resps'[q] = resps[q]]_vars

\* Two credentials, two chat requests first sent under credential 1: request
\* 1 has switched to credential 2 and awaits its retry, and request 2, in
\* flight all the while, has then switched back and resent under credential 1
\* where alone it would have resent under credential 2.
C13_Witness ==
    /\ Len(apiKeys) = 2
    /\ IsChat(1) /\ IsChat(2)
    /\ pc[1] = "await2" /\ pc[2] = "await2"
    /\ \E i \in CallsOf(1, "send", 1) : calls[1][i].key = apiKeys[1]
    /\ \E i \in CallsOf(1, "send", 2) : calls[1][i].key = apiKeys[2]
    /\ \E i \in CallsOf(2, "send", 1) : calls[2][i].key = apiKeys[1]
    /\ \E i \in CallsOf(2, "send", 2) : calls[2][i].key = apiKeys[1]
    /\ currentApiKeyIndex = 0

----
\* C14: the cursor and the client change only in the step in which a chat
\* request enters its retry, that is after a first attempt that failed with an
\* error classified InvalidCredentialError or QuotaExceededError under a pool
\* of more than one credential.  Every other step leaves both unchanged: a
\* first attempt that succeeds, a validation or configuration failure, a
\* failure classified ContentBlockedError or UnknownBackendError, any failure
\* under a pool of at most one credential, the settling of a retry, and the
\* handlers of GET /api/models and GET /api/health.
C14_CursorFrame ==
    [][/\ (currentApiKeyIndex' # currentApiKeyIndex \/ genAI' # genAI)
          => \E r \in Reqs :
                /\ IsChat(r)' /\ ~Retried(r) /\ Retried(r)'
                /\ FirstFailed(r)'
                /\ Classify(error'[r]) \in {InvalidCredentialError, QuotaExceededError}
                /\ Len(apiKeys) > 1
       /\ \A r \in Reqs :
            \/ route'[r] \in {"models", "health"}
            \/ IsChat(r)' /\ pc'[r] # pc[r] /\ ~(~Retried(r) /\ Retried(r)')
            \/ IsChat(r)' /\ pc'[r] # pc[r] /\ Len(apiKeys) <= 1
            => currentApiKeyIndex' = currentApiKeyIndex /\ genAI' = genAI
       /\ UNCHANGED <<env, apiKeys>>]_vars

\* Two credentials, the cursor on the second: a first send that failed with a
\* safety error was answered and left the cursor and the client alone.
C14_Witness ==
    /\ IsChat(1) /\ pc[1] = "done" /\ Len(apiKeys) = 2
    /\ Len(settled[1]) = 1 /\ settled[1][1] = Throw(E_safety)
    /\ ~Retried(1)
    /\ currentApiKeyIndex = 1 /\ genAI = "k2"
    /\ \A i \in 1 .. Len(calls[1]) : calls[1][i].key = "k2"

----
\* C15: every retry asks the library for the primary model identifier only,
\* once.  When that construction succeeds the retry starts one session with an
\* empty history, whatever history the request carried, and sends one message,
\* the message of the request, which is the message the first attempt sent if
\* it sent one.  When that construction throws, the retry starts no session
\* and sends nothing, and the request is answered with the failure built from
\* the error of the first attempt.
C15_RetryShape ==
    \A r \in Reqs :
        IsChat(r) /\ Retried(r)
        => LET m  == CallsOf(r, "model", 2)
               st == CallsOf(r, "start", 2)
               sd == CallsOf(r, "send", 2)
           IN  /\ Cardinality(m) = 1
               /\ \A i \in m \cup st \cup sd :
                    /\ calls[r][i].model = ModelPreference[1]
                    /\ calls[r][i].history = <<>>
               /\ \A i \in m :
                    IF calls[r][i].ok
                    THEN /\ Cardinality(st) = 1 /\ Cardinality(sd) = 1
                         /\ \A j \in st : \A k \in sd :
                                /\ i < j /\ j < k
                                /\ calls[r][k].message = body[r].message
                                /\ \A f \in CallsOf(r, "send", 1) :
                                        calls[r][f].message = calls[r][k].message
                    ELSE /\ st = {} /\ sd = {}
                         /\ pc[r] = "done"
                         /\ resps[r] = <<Failure(error[r])>>

\* A request with a history that survives the filter, retried after its send
\* failed: the first session was started with that history, the retry's
\* session and send carry none, and both sends carry the same message.
C15_Witness ==
    /\ IsChat(1) /\ Retried(1) /\ pc[1] = "await2"
    /\ \E i \in CallsOf(1, "start", 1) : calls[1][i].history # <<>>
    /\ \E i \in CallsOf(1, "send", 1) : \E k \in CallsOf(1, "send", 2) :
            /\ calls[1][i].history # <<>>
            /\ calls[1][k].history = <<>>
            /\ calls[1][k].message = calls[1][i].message
            /\ calls[1][k].model = ModelPreference[1]

----
\* The three getGenerativeModel calls of the first attempt of request r were
\* made and all threw.
AllThrew(r) ==
    /\ Cardinality(CallsOf(r, "model", 1)) = 3
    /\ \A i \in CallsOf(r, "model", 1) : ~calls[r][i].ok

\* C16 as stated, its last part: if all three constructions throw, no session
\* is started and no message is sent, and the request fails with the third
\* construction's error.
C16_AsStated ==
    \A r \in Reqs :
        IsChat(r) /\ AllThrew(r)
        => /\ \A i \in 1 .. Len(calls[r]) : calls[r][i].op \notin {"start", "send"}
           /\ pc[r] = "done"
           /\ resps[r] = <<Failure(calls[r][3].thrown)>>

\* C16: the getGenerativeModel calls of a first attempt are the first calls of
\* the request and ask for the identifiers in the order primary, second,
\* third; each but the last threw, and a call that is not for the third
\* identifier and is the last one succeeded.  The session and the send of the
\* first attempt use the identifier of the last of these calls and exist only
\* if that call succeeded.  If all three threw, the first attempt starts no
\* session and sends nothing, and the error of the third call is handled like
\* any backend error: the request is retried exactly under the retry policy,
\* and it is answered with the failure built from that error unless a retry
\* succeeded.
C16_ModelFallback ==
    \A r \in Reqs :
        IsChat(r) /\ calls[r] # <<>>
        => LET m == CallsOf(r, "model", 1)
               n == Cardinality(m)
               first == CallsOf(r, "start", 1) \cup CallsOf(r, "send", 1)
           IN  /\ m = 1 .. n /\ n \in 1 .. 3
               /\ \A i \in m : /\ calls[r][i].model = ModelPreference[i]
                               /\ i < n => ~calls[r][i].ok
               /\ n < 3 => calls[r][n].ok
               /\ \A j \in first : /\ calls[r][n].ok /\ j > n
                                   /\ calls[r][j].model = ModelPreference[n]
               /\ calls[r][n].ok => CallsOf(r, "start", 1) # {}
               /\ AllThrew(r)
                  => /\ first = {}
                     /\ error[r] = calls[r][3].thrown
                     /\ Retried(r) <=> ShouldRetry(calls[r][3].thrown)
                     /\ pc[r] = "done"
                        => \/ resps[r] = <<Failure(calls[r][3].thrown)>>
                           \/ /\ Retried(r) /\ settled[r] # <<>>
                              /\ settled[r][Len(settled[r])].ok
                              /\ resps[r] = <<Success(settled[r][Len(settled[r])].text)>>

\* All three constructions threw, the third with a quota error, under two
\* credentials: the retry started a session, sent the message and succeeded.
C16_Witness ==
    /\ IsChat(1) /\ AllThrew(1) /\ pc[1] = "done"
    /\ calls[1][1].thrown = E_boom /\ calls[1][3].thrown = E_quota
    /\ CallsOf(1, "send", 2) # {}
    /\ resps[1][1].json.success = TRUE

----
\* C17: in every reachable state with a non-empty pool the cursor is an index
\* of the pool, 0 <= currentApiKeyIndex < Len(apiKeys), and the client was
\* built with the credential the cursor is on (apiKeys is a JavaScript array,
\* indexed from 0; the sequence here is indexed from 1).
C17_CursorInvariant ==
    Len(apiKeys) > 0
    => /\ currentApiKeyIndex \in 0 .. Len(apiKeys) - 1
       /\ genAI = apiKeys[currentApiKeyIndex + 1]

\* Two requests in flight, one of them in its retry after a switch to the
\* second credential, the other still on its first attempt under the first.
C17_Witness ==
    /\ Len(apiKeys) = 2 /\ currentApiKeyIndex = 1 /\ genAI = "k2"
    /\ IsChat(1) /\ pc[1] = "await2"
    /\ IsChat(2) /\ pc[2] = "await1"
    /\ \E i \in CallsOf(2, "send", 1) : calls[2][i].key = "k1"

----
\* Failover specification: two credentials, the first out of quota and the
\* second good.  The library constructs every client, model and session; a
\* send fails with a quota error under the first credential and succeeds
\* under the second.

FailoverBodies ==
    {[message |-> S_hi], [message |-> S_yo],
     [message |-> S_hi, history |-> <<[role |-> "user", content |-> S_yo]>>]}

\* The credential of the client the pending send of request r was made with.
PendingKey(r, attempt) ==
    calls[r][CHOOSE i \in CallsOf(r, "send", attempt) : TRUE].key

BackendUnder(key) == IF key = apiKeys[1] THEN Throw(E_quota) ELSE Ok("reply-a")

FailoverInit == Init /\ Len(apiKeys) = 2

FailoverNext ==
    \E r \in Reqs :
        \/ \E b \in FailoverBodies : ChatStart(r, b, AllBuilt)
        \/ pc[r] = "await1" /\ FirstSettle(r, BackendUnder(PendingKey(r, 1)), Built)
        \/ pc[r] = "await2" /\ RetrySettle(r, BackendUnder(PendingKey(r, 2)))
        \/ Close(r)

FailoverSpec == FailoverInit /\ [][FailoverNext]_vars

\* C18 as stated: with the first credential out of quota and the second good,
\* every chat request with a non-empty message that has been answered was
\* answered with success true, under every interleaving, and whenever every
\* request that arrived has been answered the cursor is on the second
\* credential.
C18_Failover ==
    /\ \A r \in Reqs :
            IsChat(r) /\ HasMessage(r) /\ pc[r] = "done"
            => resps[r][1].json.success = TRUE
    /\ (\A r \in Reqs : pc[r] \in {"idle", "done"}) /\ (\E r \in Reqs : pc[r] = "done")
       => currentApiKeyIndex = 1

====
